---------------------------- MODULE Spec2Model ----------------------------
(***************************************************************************)
(* Model of the retrieval engine of src/ir.py (InformationRetrievalSystem): *)
(* corpus loading, tokenizing, inverted index and IDF construction, TF-IDF  *)
(* document vectors, pickle persistence and cosine-similarity search with   *)
(* snippet extraction.                                                      *)
(*                                                                          *)
(* Representation.                                                          *)
(*  - A Python str is a sequence of one-character strings.                  *)
(*  - An insertion-ordered dict whose iteration order is observable         *)
(*    (documents, metadata, inverted_index) is a record [keys, val]: keys   *)
(*    is the key sequence in insertion order, val the mapping.  The other   *)
(*    dicts are functions.                                                  *)
(*  - In the instance a float is an exact rational <<numerator,             *)
(*    denominator>> in lowest terms.  math.log is the table Ln (natural     *)
(*    logarithm in tenths), and the result of math.sqrt is kept as its      *)
(*    radicand; a cosine score is a sign together with the square of its    *)
(*    magnitude.  This is the arithmetic of the state machine.              *)
(*  - Floating-point rounding is modelled apart: the F64 operators are      *)
(*    IEEE-754 binary64 with round-to-nearest-even, and search64 computes   *)
(*    the scores of search with them (specification SpecBinary64).          *)
(***************************************************************************)
EXTENDS Integers, Sequences, FiniteSets, TLC

(***************************************************************************)
(* Bounds of the model.                                                     *)
(***************************************************************************)
\* longest metadata table (rows below the header) placed on disk
MaxRows == 2
\* most build passes layered into one inverted index
MaxBuilds == 2
\* largest explicit top_k passed to search
MaxTopK == 1
\* most pieces a text handed to preprocess_text is made of
MaxPieces == 3

(***************************************************************************)
(* Program constants.                                                       *)
(***************************************************************************)
\* search(self, query, top_k=10)
DefaultTopK == 10
\* len(w) > 2
MinWordLen == 2
\* matching_sentences[:3]
MaxSentences == 3

(***************************************************************************)
(* Generic helpers.                                                         *)
(***************************************************************************)
Range(s) == {s[i] : i \in DOMAIN s}

Min(a, b) == IF a <= b THEN a ELSE b

Max(a, b) == IF a >= b THEN a ELSE b

Abs(a) == IF a < 0 THEN -a ELSE a

\* Python's s[:k] for a list s and an integer k of either sign
SliceTo(s, k) ==
  IF k >= 0 THEN SubSeq(s, 1, Min(k, Len(s)))
  ELSE SubSeq(s, 1, Max(Len(s) + k, 0))

\* an insertion-ordered dict
EmptyDict == [keys |-> <<>>, val |-> <<>>]

HasKey(d, k) == k \in Range(d.keys)

\* d[k] = v: a new key goes to the end, an old key keeps its place
DictSet(d, k, v) ==
  IF HasKey(d, k)
  THEN [keys |-> d.keys, val |-> [x \in Range(d.keys) |-> IF x = k THEN v ELSE d.val[x]]]
  ELSE [keys |-> Append(d.keys, k),
        val |-> [x \in Range(d.keys) \cup {k} |-> IF x = k THEN v ELSE d.val[x]]]

(***************************************************************************)
(* Floats as exact rationals.                                               *)
(***************************************************************************)
RECURSIVE GCD(_, _)
GCD(a, b) == IF b = 0 THEN a ELSE GCD(b, a % b)

\* n/d in lowest terms with a positive denominator (d # 0)
Rat(n, d) ==
  LET g == GCD(Abs(n), Abs(d))
      s == IF d < 0 THEN -1 ELSE 1
  IN  <<(s * n) \div g, (s * d) \div g>>

Zero == <<0, 1>>

RAdd(x, y) == Rat(x[1] * y[2] + y[1] * x[2], x[2] * y[2])

\* cross-reduced before multiplying, so that the products stay small
RMul(x, y) ==
  LET g1 == GCD(Abs(x[1]), y[2])
      g2 == GCD(Abs(y[1]), x[2])
  IN  Rat((x[1] \div g1) * (y[1] \div g2), (x[2] \div g2) * (y[2] \div g1))

\* x / y for y # 0
RDiv(x, y) == RMul(x, Rat(y[2], y[1]))

RSign(x) == IF x[1] > 0 THEN 1 ELSE IF x[1] < 0 THEN -1 ELSE 0

\* a/b < c/d for a, c >= 0 and b, d > 0, by continued-fraction expansion
RECURSIVE FracLess(_, _, _, _)
FracLess(a, b, c, d) ==
  LET q1 == a \div b
      q2 == c \div d
      r1 == a % b
      r2 == c % d
  IN  IF q1 # q2 THEN q1 < q2
      ELSE IF r2 = 0 THEN FALSE
      ELSE IF r1 = 0 THEN TRUE
      ELSE FracLess(d, r2, b, r1)

\* x < y for non-negative rationals
RLess(x, y) == FracLess(x[1], x[2], y[1], y[2])

\* math.log(n / d) for integers n >= 1, d >= 1: natural logarithm in tenths
Ln ==
  <<0, 7, 11, 14, 16, 18, 19, 21, 22, 23, 24, 25>>

Log(n, d) == Ln[n] - Ln[d]

(***************************************************************************)
(* Natural numbers of any size, for the significands of binary64: a         *)
(* little-endian sequence of limbs, no zero limb at the top; <<>> is 0.     *)
(***************************************************************************)
\* bits of a limb: the product of two limbs and a column of such products fit a
\* 32-bit integer
LimbBits == 13

RECURSIVE BigNorm(_)
BigNorm(a) ==
  IF a # <<>> /\ a[Len(a)] = 0 THEN BigNorm(SubSeq(a, 1, Len(a) - 1)) ELSE a

RECURSIVE BigOfInt(_)
BigOfInt(n) == IF n = 0 THEN <<>> ELSE <<n % 2 ^ LimbBits>> \o BigOfInt(n \div 2 ^ LimbBits)

Limb(a, i) == IF i \in DOMAIN a THEN a[i] ELSE 0

\* the limbs of the number whose columns, not yet reduced below 2^LimbBits, are cols
RECURSIVE Carry(_, _)
Carry(cols, c) ==
  IF cols = <<>> THEN BigOfInt(c)
  ELSE LET t == Head(cols) + c
       IN  <<t % 2 ^ LimbBits>> \o Carry(Tail(cols), t \div 2 ^ LimbBits)

BigAdd(a, b) ==
  BigNorm(Carry([i \in 1 .. Max(Len(a), Len(b)) |-> Limb(a, i) + Limb(b, i)], 0))

\* a - b for a >= b
BigSub(a, b) ==
  BigNorm(Carry([i \in 1 .. Max(Len(a), Len(b)) |-> Limb(a, i) - Limb(b, i)], 0))

RECURSIVE ColumnSum(_, _, _, _)
ColumnSum(a, b, k, i) ==
  IF i > Len(a) THEN 0
  ELSE a[i] * Limb(b, k + 1 - i) + ColumnSum(a, b, k, i + 1)

BigMul(a, b) ==
  IF a = <<>> \/ b = <<>> THEN <<>>
  ELSE BigNorm(Carry([k \in 1 .. Len(a) + Len(b) - 1 |-> ColumnSum(a, b, k, 1)], 0))

BigLess(a, b) ==
  IF Len(a) # Len(b) THEN Len(a) < Len(b)
  ELSE \E i \in DOMAIN a :
         a[i] < b[i] /\ \A j \in DOMAIN a : j > i => a[j] = b[j]

\* 2^k
BigPow2(k) ==
  [i \in 1 .. (k \div LimbBits) + 1 |->
     IF i = (k \div LimbBits) + 1 THEN 2 ^ (k % LimbBits) ELSE 0]

\* a * 2^k
BigShl(a, k) == BigMul(a, BigPow2(k))

\* a \div 2^k
BigShr(a, k) ==
  LET q == k \div LimbBits
      r == k % LimbBits
  IN  BigNorm([i \in 1 .. Max(Len(a) - q, 0) |->
                 (a[i + q] \div 2 ^ r) + (Limb(a, i + q + 1) % 2 ^ r) * 2 ^ (LimbBits - r)])

\* the number of bits of a
BitLen(a) ==
  IF a = <<>> THEN 0
  ELSE LimbBits * (Len(a) - 1)
         + (CHOOSE k \in 1 .. LimbBits : 2 ^ (k - 1) <= a[Len(a)] /\ a[Len(a)] < 2 ^ k)

\* the number whose bits, most significant first, are bits
BigOfBits(bits) ==
  LET n == Len(bits)
      LimbOf(i) ==
        LET lo == LimbBits * (i - 1)
            RECURSIVE Sum(_)
            Sum(p) == IF p >= Min(lo + LimbBits, n) THEN 0
                      ELSE bits[n - p] * 2 ^ (p - lo) + Sum(p + 1)
        IN  Sum(lo)
  IN  BigNorm([i \in 1 .. (n + LimbBits - 1) \div LimbBits |-> LimbOf(i)])

\* long division, eight bits at a time: st.rem < d is the remainder so far,
\* st.bits the bits of the quotient so far, most significant first, st.n the
\* number of bits still to come
DivStep(st, d) ==
  LET twice == BigAdd(st.rem, st.rem)
  IN  IF BigLess(twice, d)
      THEN [bits |-> Append(st.bits, 0), rem |-> twice, n |-> st.n - 1]
      ELSE [bits |-> Append(st.bits, 1), rem |-> BigSub(twice, d), n |-> st.n - 1]

RECURSIVE DivSteps(_, _, _)
DivSteps(st, d, k) == IF k = 0 \/ st.n = 0 THEN st ELSE DivSteps(DivStep(st, d), d, k - 1)

RECURSIVE DivBits(_, _)
DivBits(st, d) == IF st.n = 0 THEN st ELSE DivBits(DivSteps(st, d, 8), d)

\* the integer square root digit by digit, eight digits at a time: st.bit runs
\* over the powers of 4 downwards, st.left is what remains of the number
SqrtStep(st) ==
  LET t == BigAdd(st.root, st.bit)
      half == BigShr(st.root, 1)
  IN  IF BigLess(st.left, t)
      THEN [left |-> st.left, root |-> half, bit |-> BigShr(st.bit, 2)]
      ELSE [left |-> BigSub(st.left, t), root |-> BigAdd(half, st.bit),
            bit |-> BigShr(st.bit, 2)]

RECURSIVE SqrtSteps(_, _)
SqrtSteps(st, n) == IF n = 0 \/ st.bit = <<>> THEN st ELSE SqrtSteps(SqrtStep(st), n - 1)

RECURSIVE SqrtDigits(_)
SqrtDigits(st) == IF st.bit = <<>> THEN st ELSE SqrtDigits(SqrtSteps(st, 8))

(***************************************************************************)
(* Python floats as they are: IEEE-754 binary64.  A float is zero or a      *)
(* positive normal number m * 2^e with m of Precision bits (the floats of   *)
(* an index built once: its weights are non-negative); every operation      *)
(* rounds to nearest, ties to even.                                         *)
(***************************************************************************)
\* bits of the significand of a binary64
Precision == 53

F64Zero == [m |-> <<>>, e |-> 0]

\* the double nearest to M * 2^E, or to a number just above it when sticky: the
\* lowest sh bits of M are cut off, q is what stays and r what goes; up when r is
\* more than half a unit in the last place, and on a tie when q is odd
F64Round(M, E, sticky) ==
  LET sh == BitLen(M) - Precision
      q == BigShr(M, sh)
      r == BigSub(M, BigShl(q, sh))
      half == BigPow2(sh - 1)
      up == BigLess(half, r) \/ (r = half /\ (sticky \/ q[1] % 2 = 1))
      q1 == IF up THEN BigAdd(q, <<1>>) ELSE q
  IN  IF M = <<>> THEN F64Zero
      ELSE IF sh <= 0 THEN [m |-> BigShl(M, -sh), e |-> E + sh]
      ELSE IF BitLen(q1) > Precision THEN [m |-> BigShr(q1, 1), e |-> E + sh + 1]
      ELSE [m |-> q1, e |-> E + sh]

F64OfInt(n) == F64Round(BigOfInt(n), 0, FALSE)

F64Add(a, b) ==
  IF a.m = <<>> THEN b
  ELSE IF b.m = <<>> THEN a
  ELSE LET e == Min(a.e, b.e)
       IN  F64Round(BigAdd(BigShl(a.m, a.e - e), BigShl(b.m, b.e - e)), e, FALSE)

F64Mul(a, b) == F64Round(BigMul(a.m, b.m), a.e + b.e, FALSE)

\* a / b for b # 0: the first bit of the quotient of the significands, then
\* Precision + 3 more
F64Div(a, b) ==
  LET first == IF BigLess(a.m, b.m) THEN 0 ELSE 1
      q == DivBits([bits |-> <<first>>,
                    rem |-> IF first = 1 THEN BigSub(a.m, b.m) ELSE a.m,
                    n |-> Precision + 3], b.m)
  IN  IF a.m = <<>> THEN F64Zero
      ELSE F64Round(BigOfBits(q.bits), a.e - b.e - (Precision + 3), q.rem # <<>>)

\* math.sqrt(a): the integer root of the significand shifted to an even exponent
\* and to 2 * (Precision + 2) + 1 or + 2 bits, so that the root has Precision + 3
F64Sqrt(a) ==
  LET s == SqrtDigits([left |-> BigShl(a.m, (a.e % 2) + 2 * (Precision \div 2 + 3)),
                       root |-> <<>>,
                       bit |-> BigPow2(2 * (Precision + 2))])
  IN  IF a.m = <<>> THEN F64Zero
      ELSE F64Round(s.root, (a.e - (a.e % 2)) \div 2 - (Precision \div 2 + 3),
                    s.left # <<>>)

F64Less(a, b) ==
  IF b.m = <<>> THEN FALSE
  ELSE IF a.m = <<>> THEN TRUE
  ELSE a.e < b.e \/ (a.e = b.e /\ BigLess(a.m, b.m))

F64One == F64OfInt(1)

\* math.log(x) for x = 1 and for the quotients N / df of an index of at most five
\* documents, df < N: the doubles nearest to the natural logarithms
F64Log(x) ==
  IF x = F64One THEN F64Zero
  ELSE (CHOOSE p \in
  {
    \* log(0x1.0000000000000p+1) = 0x1.62e42fefa39efp-1
    [x |-> [m |-> <<0, 0, 0, 0, 1>>, e |-> -51],
     y |-> [m |-> <<6639, 6097, 4287, 3164, 1>>, e |-> -53]],
    \* log(0x1.8000000000000p+1) = 0x1.193ea7aad030bp+0
    [x |-> [m |-> <<0, 0, 0, 4096, 1>>, e |-> -51],
     y |-> [m |-> <<779, 5480, 6814, 807, 1>>, e |-> -52]],
    \* log(0x1.8000000000000p+0) = 0x1.9f323ecbf984cp-2
    [x |-> [m |-> <<0, 0, 0, 4096, 1>>, e |-> -52],
     y |-> [m |-> <<6220, 1532, 2299, 5094, 1>>, e |-> -54]],
    \* log(0x1.0000000000000p+2) = 0x1.62e42fefa39efp+0
    [x |-> [m |-> <<0, 0, 0, 0, 1>>, e |-> -50],
     y |-> [m |-> <<6639, 6097, 4287, 3164, 1>>, e |-> -52]],
    \* log(0x1.5555555555555p+0) = 0x1.269621134db91p-2
    [x |-> [m |-> <<5461, 2730, 5461, 2730, 1>>, e |-> -52],
     y |-> [m |-> <<7057, 2470, 6276, 1234, 1>>, e |-> -54]],
    \* log(0x1.4000000000000p+2) = 0x1.9c041f7ed8d33p+0
    [x |-> [m |-> <<0, 0, 0, 2048, 1>>, e |-> -50],
     y |-> [m |-> <<3379, 8044, 4221, 4992, 1>>, e |-> -52]],
    \* log(0x1.4000000000000p+1) = 0x1.d5240f0e0e078p-1
    [x |-> [m |-> <<0, 0, 0, 2048, 1>>, e |-> -51],
     y |-> [m |-> <<120, 1799, 4156, 6820, 1>>, e |-> -53]],
    \* log(0x1.aaaaaaaaaaaabp+0) = 0x1.058aefa811452p-1
    [x |-> [m |-> <<2731, 5461, 2730, 5461, 1>>, e |-> -52],
     y |-> [m |-> <<5202, 5128, 3006, 177, 1>>, e |-> -53]],
    \* log(0x1.4000000000000p+0) = 0x1.c8ff7c79a9a22p-3
    [x |-> [m |-> <<0, 0, 0, 2048, 1>>, e |-> -52],
     y |-> [m |-> <<6690, 7380, 7665, 6431, 1>>, e |-> -55]]
  } : p.x = x).y

\* the quotients of the small integers, divided once
QuotientTable ==
  [n \in 1 .. 8, d \in 1 .. 8 |-> F64Div(F64OfInt(n), F64OfInt(d))] @@ <<>>

\* n / d for two ints, d # 0
F64Quotient(n, d) ==
  IF <<n, d>> \in DOMAIN QuotientTable THEN QuotientTable[n, d]
  ELSE F64Div(F64OfInt(n), F64OfInt(d))

\* A signed real known by its sign and the square of its magnitude: the form of a
\* cosine score, dot / (sqrt(a) * sqrt(b)).
Real(sgn, sq) == [sgn |-> sgn, sq |-> sq]

RealOfRat(x) == Real(RSign(x), RMul(x, x))

\* x < y for two scores, both exact or both binary64
RealLess(x, y) ==
  IF "m" \in DOMAIN x THEN F64Less(x, y)
  ELSE IF x.sgn # y.sgn THEN x.sgn < y.sgn
  ELSE IF x.sgn = 0 THEN FALSE
  ELSE IF x.sgn > 0 THEN RLess(x.sq, y.sq)
  ELSE RLess(y.sq, x.sq)

(***************************************************************************)
(* Text.                                                                    *)
(***************************************************************************)
\* the characters re.findall(r'[a-z]+') keeps
LowerCase ==
  {"a", "b", "c", "d", "e", "f", "g", "h", "i", "j", "k", "l", "m",
   "n", "o", "p", "q", "r", "s", "t", "u", "v", "w", "x", "y", "z"}

\* str.lower() on the ASCII capitals
UpperToLower ==
  "A" :> "a" @@ "B" :> "b" @@ "C" :> "c" @@ "D" :> "d" @@ "E" :> "e" @@ "F" :> "f" @@ "G" :> "g" @@ "H" :> "h" @@ "I" :> "i"
  @@ "J" :> "j" @@ "K" :> "k" @@ "L" :> "l" @@ "M" :> "m" @@ "N" :> "n" @@ "O" :> "o" @@ "P" :> "p" @@ "Q" :> "q" @@ "R" :> "r"
  @@ "S" :> "s" @@ "T" :> "t" @@ "U" :> "u" @@ "V" :> "v" @@ "W" :> "w" @@ "X" :> "x" @@ "Y" :> "y" @@ "Z" :> "z"


\* the stopword set of preprocess_text
stopwords ==
  {
    <<"t","h","e">>, <<"a">>, <<"a","n">>, <<"a","n","d">>, <<"o","r">>, <<"b","u","t">>,
    <<"i","n">>, <<"o","n">>, <<"a","t">>, <<"t","o">>, <<"f","o","r">>, <<"o","f">>,
    <<"w","i","t","h">>, <<"b","y">>, <<"f","r","o","m">>, <<"i","s">>, <<"a","r","e">>,
    <<"w","a","s">>, <<"w","e","r","e">>, <<"b","e","e","n">>, <<"b","e">>,
    <<"h","a","v","e">>, <<"h","a","s">>, <<"h","a","d">>, <<"d","o">>, <<"d","o","e","s">>,
    <<"d","i","d">>, <<"w","i","l","l">>, <<"w","o","u","l","d">>, <<"s","h","o","u","l","d">>,
    <<"c","o","u","l","d">>, <<"m","a","y">>, <<"m","i","g","h","t">>, <<"m","u","s","t">>,
    <<"s","h","a","l","l">>, <<"c","a","n">>, <<"t","h","i","s">>, <<"t","h","a","t">>,
    <<"t","h","e","s","e">>, <<"t","h","o","s","e">>, <<"i">>, <<"y","o","u">>, <<"h","e">>,
    <<"s","h","e">>, <<"i","t">>, <<"w","e">>, <<"t","h","e","y">>, <<"t","h","e","m">>,
    <<"t","h","e","i","r">>, <<"w","h","a","t">>, <<"w","h","i","c","h">>, <<"w","h","o">>,
    <<"w","h","e","n">>, <<"w","h","e","r","e">>, <<"w","h","y">>, <<"h","o","w">>,
    <<"a","l","l">>, <<"e","a","c","h">>, <<"e","v","e","r","y">>, <<"s","o","m","e">>,
    <<"a","n","y">>, <<"m","a","n","y">>, <<"m","u","c","h">>, <<"m","o","s","t">>,
    <<"o","t","h","e","r">>, <<"a","n","o","t","h","e","r">>, <<"s","u","c","h">>, <<"n","o">>,
    <<"n","o","t">>, <<"o","n","l","y">>, <<"o","w","n">>, <<"s","a","m","e">>, <<"s","o">>,
    <<"t","h","a","n">>, <<"t","o","o">>, <<"v","e","r","y">>, <<"s">>, <<"t">>,
    <<"j","u","s","t">>, <<"n","o","w">>, <<"h","e","r","e">>, <<"t","h","e","r","e">>,
    <<"a","l","s","o">>, <<"a","s">>
  }

\* "alpha"
QAlpha ==
  <<"a","l","p","h","a">>

\* text.lower()
Lower(text) ==
  [i \in DOMAIN text |->
     IF text[i] \in DOMAIN UpperToLower THEN UpperToLower[text[i]] ELSE text[i]]

\* re.findall(r'[a-z]+', text) from position i on: cur is the run being read,
\* acc the runs already closed
RECURSIVE Runs(_, _, _, _)
Runs(text, i, cur, acc) ==
  LET closed == IF cur = <<>> THEN acc ELSE Append(acc, cur)
  IN  IF i > Len(text) THEN closed
      ELSE IF text[i] \in LowerCase THEN Runs(text, i + 1, Append(cur, text[i]), acc)
      ELSE Runs(text, i + 1, <<>>, closed)

FindAllLower(text) == Runs(text, 1, <<>>, <<>>)

\* the filter of preprocess_text: w not in stopwords and len(w) > 2
KeepWord(w) == w \notin stopwords /\ Len(w) > MinWordLen

\* the body of preprocess_text
Tokenize(text) == SelectSeq(FindAllLower(Lower(text)), KeepWord)

\* the characters re.split(r'[.!?]', content) splits on
SentenceEnd == {".", "!", "?"}

\* re.split(r'[.!?]', content): every piece between two separators, empty ones too
RECURSIVE Pieces(_, _, _, _)
Pieces(text, i, cur, acc) ==
  IF i > Len(text) THEN Append(acc, cur)
  ELSE IF text[i] \in SentenceEnd THEN Pieces(text, i + 1, <<>>, Append(acc, cur))
  ELSE Pieces(text, i + 1, Append(cur, text[i]), acc)

SplitSentences(content) == Pieces(content, 1, <<>>, <<>>)

Whitespace == {" ", "\t", "\n", "\r"}

\* str.strip()
RECURSIVE LStrip(_)
LStrip(s) == IF s # <<>> /\ Head(s) \in Whitespace THEN LStrip(Tail(s)) ELSE s

RECURSIVE RStrip(_)
RStrip(s) ==
  IF s # <<>> /\ s[Len(s)] \in Whitespace THEN RStrip(SubSeq(s, 1, Len(s) - 1)) ELSE s

Strip(s) == RStrip(LStrip(s))

\* t in s, for strings
Contains(s, t) ==
  \E i \in 0 .. (Len(s) - Len(t)) : SubSeq(s, i + 1, i + Len(t)) = t

\* sep.join(parts)
RECURSIVE Join(_, _)
Join(parts, sep) ==
  IF parts = <<>> THEN <<>>
  ELSE IF Len(parts) = 1 THEN parts[1]
  ELSE parts[1] \o sep \o Join(Tail(parts), sep)

\* the distinct elements of a list in the order of their first occurrence: the key
\* order of a dict filled while looping over the list
RECURSIVE Distinct(_)
Distinct(s) ==
  IF s = <<>> THEN <<>>
  ELSE LET front == Distinct(SubSeq(s, 1, Len(s) - 1))
           x == s[Len(s)]
       IN  IF x \in Range(front) THEN front ELSE Append(front, x)

\* word_count[word] after the counting loop
Count(words, w) == Cardinality({i \in DOMAIN words : words[i] = w})

\* f with f[k] = v
Put(f, k, v) == [x \in (DOMAIN f) \cup {k} |-> IF x = k THEN v ELSE f[x]]

\* int(cell) succeeds: the cell is a non-empty run of digits (signs, blanks and
\* underscores, which int() also accepts, are not among the modelled cells)
Digits == <<"0", "1", "2", "3", "4", "5", "6", "7", "8", "9">>

IsInt(cell) == cell # <<>> /\ \A i \in DOMAIN cell : cell[i] \in Range(Digits)

DigitValue(c) == (CHOOSE i \in DOMAIN Digits : Digits[i] = c) - 1

RECURSIVE IntOf(_)
IntOf(cell) ==
  IF cell = <<>> THEN 0
  ELSE 10 * IntOf(SubSeq(cell, 1, Len(cell) - 1)) + DigitValue(cell[Len(cell)])

(***************************************************************************)
(* The disk: the metadata table, the article files and the pickled index.   *)
(***************************************************************************)
\* one csv.DictReader row: column name -> cell.  The id cell is kept as text,
\* since load_documents parses it.
Row(id, n, filename) ==
  [id |-> id, title |-> <<"Doc", n>>, url |-> <<"http://news/", n>>,
   date |-> <<"2024-01-0", n>>, filename |-> filename]

Row2 == Row(<<"2">>, "2", "b.txt")

\* the rows that metadata.csv is made of
RowPool ==
  {
    Row(<<"1">>, "1", "a.txt"),
    Row2,
    Row(<<"3">>, "3", "c.txt"),
    \* a document no token of which survives the tokenizer
    Row(<<"4">>, "4", "d.txt"),
    \* an id that int() rejects
    Row(<<"x">>, "5", "a.txt"),
    \* a row whose text file is not on disk
    Row(<<"7">>, "7", "gone.txt")
  }

\* the corpus of the three-document scenario
ScenarioFiles ==
  [f \in {"doc1.txt", "doc2.txt", "doc3.txt"} |->
     \* "alpha beta alpha"
     CASE f = "doc1.txt" ->
            <<"a","l","p","h","a"," ","b","e","t","a"," ","a","l","p","h",
              "a">>
     \* "beta gamma"
       [] f = "doc2.txt" ->
            <<"b","e","t","a"," ","g","a","m","m","a">>
     \* "gamma gamma alpha"
       [] f = "doc3.txt" ->
            <<"g","a","m","m","a"," ","g","a","m","m","a"," ","a","l","p","h",
              "a">>]

\* the metadata table of the scenario, its three rows in any order
ScenarioTables ==
  {t \in [1 .. 3 -> {Row(<<"1">>, "1", "doc1.txt"), Row(<<"2">>, "2", "doc2.txt"),
                     Row(<<"3">>, "3", "doc3.txt")}] :
     \A i, j \in DOMAIN t : i # j => t[i] # t[j]}

\* the files of articles_dir
Files ==
  [f \in {"a.txt", "b.txt", "c.txt", "d.txt"} |->
     \* a.txt: "Alpha beta. The alpha!"  (tokens alpha beta alpha)
     CASE f = "a.txt" ->
            <<"A","l","p","h","a"," ","b","e","t","a","."," ","T","h","e"," ",
              "a","l","p","h","a", "!">>
     \* b.txt: "Beta 4 gamma"  (tokens beta gamma)
       [] f = "b.txt" ->
            <<"B","e","t","a"," ","4"," ","g","a","m","m","a">>
     \* c.txt: "Gamma this. This? gamma! This alpha. this"  (tokens gamma gamma alpha)
       [] f = "c.txt" ->
            <<"G","a","m","m","a"," ","t","h","i","s","."," ","T","h","i","s",
              "?"," ","g","a","m", "m","a","!"," ","T","h","i","s"," ","a",
              "l","p","h","a","."," ","t","h","i","s">>
     \* d.txt: "It is 42."  (no token survives)
       [] f = "d.txt" ->
            <<"I","t"," ","i","s"," ","4","2",".">>]

\* the metadata tables put on disk: up to MaxRows rows of the pool, no row twice
Tables ==
  {t \in UNION {[1 .. n -> RowPool] : n \in 0 .. MaxRows} :
     \A i, j \in DOMAIN t : i # j => t[i] # t[j]}

\* the queries typed into interactive_search
Queries ==
  {
    \* the empty query
    <<>>,
    \* "the it": a stopword and a short word
    <<"t","h","e"," ","i","t">>,
    \* "owl": a term of no document
    <<"o","w","l">>,
    QAlpha,
    \* "alpha alpha gamma"
    <<"a","l","p","h","a"," ","a","l","p","h","a"," ","g","a","m","m","a">>,
    \* "Alpha gamma"
    <<"A","l","p","h","a"," ","g","a","m","m","a">>,
    \* "gamma his": "his" is no term of the corpus but a substring of "this"
    <<"g","a","m","m","a"," ","h","i","s">>,
    \* "beta gamma": the terms of b.txt
    <<"b","e","t","a"," ","g","a","m","m","a">>
  }

TopKs == (0 .. MaxTopK) \cup {DefaultTopK}

\* preprocess_text on the texts of the model, tokenized once
TokenTable ==
  [t \in Range(Files) \cup Range(ScenarioFiles) \cup Queries |-> Tokenize(t)] @@ <<>>

preprocess_text(text) == TokenTable[text]

(***************************************************************************)
(* State.                                                                   *)
(***************************************************************************)
VARIABLES
  metadata_csv,  \* the rows of metadata_file
  articles,      \* articles_dir: filename -> content
  index_pkl,     \* index.pkl: <<>> when absent, else <<the pickled dict>>
  ir,            \* the InformationRetrievalSystem instance
  done,          \* history: what has been loaded, built or deserialized into ir
  ret,           \* the last call on ir and how it ended
  pc             \* the statement of build_index a second thread is at, "idle"
                 \* when no second thread runs

vars == <<metadata_csv, articles, index_pkl, ir, done, ret, pc>>

\* __init__
NewSystem ==
  [documents |-> EmptyDict, metadata |-> EmptyDict, inverted_index |-> EmptyDict,
   doc_vectors |-> <<>>, doc_lengths |-> <<>>, idf_values |-> <<>>, N |-> 0]

\* how a method ends: the instance it leaves, the exception it raised ("none" when
\* it returned) and the value it returned
Outcome(s, exc, value) == [self |-> s, exc |-> exc, value |-> value]

(***************************************************************************)
(* load_documents                                                           *)
(***************************************************************************)
MetaColumns == {"title", "filename", "url", "date"}

\* the loop over csv.DictReader(f)
RECURSIVE ReadRows(_, _)
ReadRows(rows, metadata) ==
  IF rows = <<>> THEN [metadata |-> metadata, exc |-> "none"]
  ELSE LET row == Head(rows)
       IN  IF "id" \notin DOMAIN row THEN [metadata |-> metadata, exc |-> "KeyError"]
           ELSE IF ~IsInt(row["id"]) THEN [metadata |-> metadata, exc |-> "ValueError"]
           ELSE IF ~(MetaColumns \subseteq DOMAIN row)
                THEN [metadata |-> metadata, exc |-> "KeyError"]
           ELSE ReadRows(Tail(rows),
                         DictSet(metadata, IntOf(row["id"]),
                                 [c \in MetaColumns |-> row[c]]))

\* the loop over self.metadata.items()
RECURSIVE ReadFiles(_, _, _, _)
ReadFiles(keys, metadata, files, documents) ==
  IF keys = <<>> THEN [documents |-> documents, exc |-> "none"]
  ELSE LET filename == metadata.val[Head(keys)]["filename"]
       IN  IF filename \notin DOMAIN files
           THEN [documents |-> documents, exc |-> "FileNotFoundError"]
           ELSE ReadFiles(Tail(keys), metadata, files,
                          DictSet(documents, Head(keys), files[filename]))

load_documents(s, rows, files) ==
  LET r1 == ReadRows(rows, s.metadata)
      s1 == [s EXCEPT !.metadata = r1.metadata]
      r2 == ReadFiles(s1.metadata.keys, s1.metadata, files, s1.documents)
      s2 == [s1 EXCEPT !.documents = r2.documents]
  IN  IF r1.exc # "none" THEN Outcome(s1, r1.exc, <<>>)
      ELSE IF r2.exc # "none" THEN Outcome(s2, r2.exc, <<>>)
      ELSE Outcome([s2 EXCEPT !.N = Len(s2.documents.keys)], "none", <<>>)

(***************************************************************************)
(* build_inverted_index                                                     *)
(***************************************************************************)
\* count / len(words) if words else 0
TermFrequency(count, words) == IF words # <<>> THEN Rat(count, Len(words)) ELSE Zero

\* self.inverted_index[word].append((doc_id, tf)) for each key of word_count
RECURSIVE AddPostings(_, _, _, _)
AddPostings(index, doc_id, words, terms) ==
  IF terms = <<>> THEN index
  ELSE LET word == Head(terms)
           old == IF HasKey(index, word) THEN index.val[word] ELSE <<>>
           posting == <<doc_id, TermFrequency(Count(words, word), words)>>
       IN  AddPostings(DictSet(index, word, Append(old, posting)),
                       doc_id, words, Tail(terms))

\* the loop over self.documents.items()
RECURSIVE IndexDocuments(_, _, _)
IndexDocuments(index, keys, documents) ==
  IF keys = <<>> THEN index
  ELSE LET words == preprocess_text(documents.val[Head(keys)])
       IN  IndexDocuments(AddPostings(index, Head(keys), words, Distinct(words)),
                          Tail(keys), documents)

\* IdfValues with a smoothed quotient, math.log((self.N + 1) / df)
IdfSmoothed(idf_values, index, N) ==
  [t \in (DOMAIN idf_values) \cup Range(index.keys) |->
     IF HasKey(index, t) THEN Log(N + 1, Len(index.val[t])) ELSE idf_values[t]]

\* the loop that sets self.idf_values[term] = math.log(self.N / df)
IdfValues(idf_values, index, N) ==
  [t \in (DOMAIN idf_values) \cup Range(index.keys) |->
     IF HasKey(index, t) THEN Log(N, Len(index.val[t])) ELSE idf_values[t]]

build_inverted_index(s) ==
  LET index == IndexDocuments(s.inverted_index, s.documents.keys, s.documents)
      s1 == [s EXCEPT !.inverted_index = index]
  IN  IF index.keys # <<>> /\ s.N = 0
      THEN \* math.log(0.0): math domain error, at the first term
           Outcome(s1, "ValueError", <<>>)
      ELSE Outcome([s1 EXCEPT !.idf_values = IdfValues(s.idf_values, index, s.N)],
                   "none", <<>>)

(***************************************************************************)
(* compute_document_vectors                                                 *)
(***************************************************************************)
\* only the document of the first posting of the list
FirstPostingDoc(postings) == {postings[i][1] : i \in DOMAIN postings \cap {1}}

PostingDocs(postings) == {postings[i][1] : i \in DOMAIN postings}

\* the tf that the loop over postings leaves in doc_vectors[doc_id][term]: that of
\* the last posting of doc_id
LastTf(postings, doc_id) ==
  LET hits == {i \in DOMAIN postings : postings[i][1] = doc_id}
  IN  postings[CHOOSE i \in hits : \A j \in hits : j <= i][2]

\* the sum of f[x] over the finite set S
RECURSIVE RSumOver(_, _)
RSumOver(S, f) ==
  IF S = {} THEN Zero
  ELSE LET x == CHOOSE y \in S : TRUE
       IN  RAdd(f[x], RSumOver(S \ {x}, f))

\* the radicand of math.sqrt(sum(val ** 2 for val in vector.values()))
SumSquares(vector) == RSumOver(DOMAIN vector, [t \in DOMAIN vector |-> RMul(vector[t], vector[t])])

\* the body of the loop for one document: its vector, or the part of it built
\* when self.idf_values[term] raised KeyError
VectorFor(s, doc_id) ==
  LET index == s.inverted_index
      terms == SelectSeq(index.keys, LAMBDA t : doc_id \in PostingDocs(index.val[t]))
      missing == {i \in DOMAIN terms : terms[i] \notin DOMAIN s.idf_values}
      stop == IF missing = {} THEN Len(terms) + 1
              ELSE CHOOSE i \in missing : \A j \in missing : i <= j
      built == {terms[i] : i \in 1 .. (stop - 1)}
  IN  [vector |-> [t \in built |->
                     RMul(LastTf(index.val[t], doc_id), Rat(s.idf_values[t], 1))],
       exc |-> IF missing = {} THEN "none" ELSE "KeyError"]

\* the loop over self.documents
RECURSIVE Vectorize(_, _)
Vectorize(s, keys) ==
  IF keys = <<>> THEN Outcome(s, "none", <<>>)
  ELSE LET doc_id == Head(keys)
           v == VectorFor(s, doc_id)
           s1 == [s EXCEPT !.doc_vectors = Put(s.doc_vectors, doc_id, v.vector)]
       IN  IF v.exc # "none" THEN Outcome(s1, v.exc, <<>>)
           ELSE Vectorize([s1 EXCEPT !.doc_lengths =
                                       Put(s.doc_lengths, doc_id, SumSquares(v.vector))],
                          Tail(keys))

compute_document_vectors(s) == Vectorize(s, s.documents.keys)

(***************************************************************************)
(* save_index, load_index                                                   *)
(***************************************************************************)
IndexKeys == <<"inverted_index", "idf_values", "doc_vectors", "doc_lengths", "N">>

\* Pickled with the norms left out: doc_lengths is pickled as an empty dict
PickledWithoutNorms(s) ==
  [k \in Range(IndexKeys) |-> IF k = "doc_lengths" THEN <<>> ELSE s[k]]

\* the dict that save_index pickles; dict(self.inverted_index) keeps keys and order
Pickled(s) == [k \in Range(IndexKeys) |-> s[k]]

\* the content of a file that pickle.dump(data, f) wrote
PickleOf(data) == [kind |-> "pickle", data |-> data]

\* index_file after save_index
save_index(s) == <<PickleOf(Pickled(s))>>

\* the assignments of load_index, one per key, in order
RECURSIVE Unpickle(_, _, _)
Unpickle(s, data, keys) ==
  IF keys = <<>> THEN Outcome(s, "none", <<>>)
  ELSE IF Head(keys) \notin DOMAIN data THEN Outcome(s, "KeyError", <<>>)
  ELSE Unpickle([s EXCEPT ![Head(keys)] = data[Head(keys)]], data, Tail(keys))

\* file is <<>> when index_file does not exist; defaultdict(list, data[...]) keeps
\* the keys, their order and the posting lists
load_index(s, file) ==
  IF file = <<>> THEN Outcome(s, "FileNotFoundError", <<>>)
  ELSE IF file[1].kind # "pickle" THEN Outcome(s, "UnpicklingError", <<>>)
  ELSE Unpickle(s, file[1].data, IndexKeys)

(***************************************************************************)
(* search                                                                   *)
(***************************************************************************)
\* QueryVector with self.idf_values.get(term, 0) in place of the membership test:
\* a term of no document enters the query vector with weight 0
QueryVectorAllTerms(s, query_terms) ==
  [t \in Range(query_terms) |->
     RMul(Rat(Count(query_terms, t), Len(query_terms)),
          Rat(IF t \in DOMAIN s.idf_values THEN s.idf_values[t] ELSE 0, 1))]

\* query_vector: tf * idf for the query terms that self.idf_values holds
QueryVector(s, query_terms) ==
  [t \in {w \in Range(query_terms) : w \in DOMAIN s.idf_values} |->
     RMul(Rat(Count(query_terms, t), Len(query_terms)), Rat(s.idf_values[t], 1))]

\* the sum of query_weight * self.doc_vectors[doc_id][term] over the shared terms
DotProduct(query_vector, doc_vector) ==
  LET shared == (DOMAIN query_vector) \cap (DOMAIN doc_vector)
  IN  RSumOver(shared, [t \in shared |-> RMul(query_vector[t], doc_vector[t])])

\* the score the loop computes for one document: the dot product, divided by the
\* two lengths when both are positive
Score(s, query_vector, doc_id) ==
  LET dot == DotProduct(query_vector, s.doc_vectors[doc_id])
      doc_length == s.doc_lengths[doc_id]
      query_length == SumSquares(query_vector)
  IN  IF RSign(doc_length) > 0 /\ RSign(query_length) > 0
      THEN Real(RSign(dot), RDiv(RMul(dot, dot), RMul(doc_length, query_length)))
      ELSE RealOfRat(dot)

\* Positive with score >= 0 in place of score > 0
NonNegative(score) == score.sgn >= 0

\* if score > 0
Positive(score) == score.sgn > 0

\* scores.items(): (doc_id, score) in the order of self.documents, positive scores only
Scores(s, query_vector) ==
  LET keys == s.documents.keys
      all == [i \in DOMAIN keys |-> <<keys[i], Score(s, query_vector, keys[i])>>]
  IN  SelectSeq(all, LAMBDA p : Positive(p[2]))

\* one step of a stable descending sort: p goes before the first item of a
\* smaller score, behind every item of an equal one
InsertByScore(sorted, p) ==
  LET smaller == {i \in DOMAIN sorted : RealLess(sorted[i][2], p[2])}
      at == IF smaller = {} THEN Len(sorted) + 1
            ELSE CHOOSE i \in smaller : \A j \in smaller : i <= j
  IN  SubSeq(sorted, 1, at - 1) \o <<p>> \o SubSeq(sorted, at, Len(sorted))

\* SortedByScore without reverse=True: a stable ascending sort
RECURSIVE SortedAscending(_)
SortedAscending(items) ==
  IF items = <<>> THEN <<>>
  ELSE LET sorted == SortedAscending(SubSeq(items, 1, Len(items) - 1))
           p == items[Len(items)]
           greater == {i \in DOMAIN sorted : RealLess(p[2], sorted[i][2])}
           at == IF greater = {} THEN Len(sorted) + 1
                 ELSE CHOOSE i \in greater : \A j \in greater : i <= j
       IN  SubSeq(sorted, 1, at - 1) \o <<p>> \o SubSeq(sorted, at, Len(sorted))

\* sorted(items, key=lambda x: x[1], reverse=True): stable, equal scores keep
\* the order of items
RECURSIVE SortedByScore(_)
SortedByScore(items) ==
  IF items = <<>> THEN <<>>
  ELSE InsertByScore(SortedByScore(SubSeq(items, 1, Len(items) - 1)), items[Len(items)])

\* MatchingSentences without the break: a sentence is appended once for every
\* query term it contains
RECURSIVE MatchingSentencesNoBreak(_, _)
MatchingSentencesNoBreak(sentences, query_terms) ==
  IF sentences = <<>> THEN <<>>
  ELSE LET sentence == Head(sentences)
           sentence_lower == Lower(sentence)
           hits == SelectSeq(query_terms, LAMBDA term : Contains(sentence_lower, term))
       IN  [i \in DOMAIN hits |-> Strip(sentence)]
             \o MatchingSentencesNoBreak(Tail(sentences), query_terms)

\* the loop over sentences, with its inner loop over query_terms and its break
RECURSIVE MatchingSentences(_, _)
MatchingSentences(sentences, query_terms) ==
  IF sentences = <<>> THEN <<>>
  ELSE LET sentence == Head(sentences)
           sentence_lower == Lower(sentence)
           hit == \E i \in DOMAIN query_terms : Contains(sentence_lower, query_terms[i])
       IN  (IF hit THEN <<Strip(sentence)>> ELSE <<>>)
             \o MatchingSentences(Tail(sentences), query_terms)

\* '. '.join(matching_sentences[:3]) + '.' if matching_sentences else ''
BuildSummary(content, query_terms) ==
  LET matching_sentences == MatchingSentences(SplitSentences(content), query_terms)
  IN  IF matching_sentences # <<>>
      THEN Join(SliceTo(matching_sentences, MaxSentences), <<".", " ">>) \o <<".">>
      ELSE <<>>

\* the summaries of the texts and queries of the model, built once
SummaryTable ==
  [c \in Range(Files) \cup Range(ScenarioFiles),
   q \in {preprocess_text(query) : query \in Queries} |->
     BuildSummary(c, q)] @@ <<>>

Summary(content, query_terms) == SummaryTable[content, query_terms]

\* one entry of results
Result(s, doc_id, score, query_terms) ==
  [doc_id |-> doc_id,
   score |-> score,
   title |-> s.metadata.val[doc_id]["title"],
   summary |-> Summary(s.documents.val[doc_id], query_terms),
   url |-> s.metadata.val[doc_id]["url"],
   date |-> s.metadata.val[doc_id]["date"]]

\* TopResults with an off-by-one slice, [:top_k + 1]
TopResultsOffByOne(items, top_k) == SliceTo(SortedByScore(items), top_k + 1)

\* sorted(...)[:top_k]
TopResults(items, top_k) == SliceTo(SortedByScore(items), top_k)

\* a search that finds the postings of each query term with
\* self.inverted_index[term]: on the defaultdict, a term that is not indexed
\* gets an empty posting list
searchThroughIndex(s, query, top_k) ==
  LET index == s.inverted_index
      absent == SelectSeq(Distinct(preprocess_text(query)),
                          LAMBDA t : t \notin Range(index.keys))
      looked == [keys |-> index.keys \o absent,
                 val |-> [t \in Range(index.keys) \cup Range(absent) |->
                            IF t \in Range(index.keys) THEN index.val[t] ELSE <<>>]]
  IN  Outcome([s EXCEPT !.inverted_index = looked], "none", <<>>)

search(s, query, top_k) ==
  LET query_terms == preprocess_text(query)
      query_vector == QueryVector(s, query_terms)
      keys == s.documents.keys
      sorted_results == TopResults(Scores(s, query_vector), top_k)
  IN  IF query_terms = <<>> THEN Outcome(s, "none", <<>>)
      ELSE IF DOMAIN query_vector = {} THEN Outcome(s, "none", <<>>)
      ELSE IF \E i \in DOMAIN keys : \/ keys[i] \notin DOMAIN s.doc_vectors
                                     \/ keys[i] \notin DOMAIN s.doc_lengths
           THEN \* self.doc_vectors[doc_id] or self.doc_lengths[doc_id]
                Outcome(s, "KeyError", <<>>)
      ELSE Outcome(s, "none",
                   [i \in DOMAIN sorted_results |->
                      Result(s, sorted_results[i][1], sorted_results[i][2], query_terms)])

(***************************************************************************)
(* search in binary64.  The instance holds its numbers exactly; for an      *)
(* instance that one build_index filled, the operators below compute, with  *)
(* the operations and in the order of the code, the floats that the build   *)
(* stored and that search derives from them.                                *)
(***************************************************************************)
\* self.idf_values[term] = math.log(self.N / df)
Idf64(s, term) == F64Log(F64Quotient(s.N, Len(s.inverted_index.val[term])))

\* self.doc_vectors[doc_id] as (term, tf * idf) in the order of its keys; tf is
\* word_count[word] / len(words)
DocVector64(s, doc_id) ==
  LET index == s.inverted_index
      terms == SelectSeq(index.keys, LAMBDA t : t \in DOMAIN s.doc_vectors[doc_id])
  IN  [i \in DOMAIN terms |->
         LET tf == LastTf(index.val[terms[i]], doc_id)
         IN  <<terms[i], F64Mul(F64Quotient(tf[1], tf[2]), Idf64(s, terms[i]))>>]

\* sum(values): from the left, starting at 0
RECURSIVE F64Sum(_)
F64Sum(values) ==
  IF values = <<>> THEN F64Zero
  ELSE F64Add(F64Sum(SubSeq(values, 1, Len(values) - 1)), values[Len(values)])

\* math.sqrt(sum(val ** 2 for val in vector.values()))
Length64(vector) ==
  F64Sqrt(F64Sum([i \in DOMAIN vector |-> F64Mul(vector[i][2], vector[i][2])]))

\* query_vector as (term, tf * idf) in the order of query_term_count
QueryVector64(s, query_terms) ==
  LET terms == SelectSeq(Distinct(query_terms), LAMBDA t : t \in DOMAIN s.idf_values)
  IN  [i \in DOMAIN terms |->
         <<terms[i],
           F64Mul(F64Quotient(Count(query_terms, terms[i]), Len(query_terms)),
                  Idf64(s, terms[i]))>>]

\* score += query_weight * self.doc_vectors[doc_id][term], over the terms of the
\* query vector that the document vector holds
Dot64(query_vector, doc_vector) ==
  LET shared == SelectSeq(query_vector,
                          LAMBDA p : \E i \in DOMAIN doc_vector : doc_vector[i][1] = p[1])
      Weight(term) == doc_vector[CHOOSE i \in DOMAIN doc_vector : doc_vector[i][1] = term][2]
  IN  F64Sum([i \in DOMAIN shared |-> F64Mul(shared[i][2], Weight(shared[i][1]))])

\* a float as a score: with its sign, as the exact scores are
AsScore(x) == [sgn |-> IF x.m = <<>> THEN 0 ELSE 1, m |-> x.m, e |-> x.e]

\* the score the loop computes for one document: the dot product, divided by the
\* two lengths when both are positive
Score64(query_vector, query_length, doc_vector) ==
  LET dot == Dot64(query_vector, doc_vector)
      doc_length == Length64(doc_vector)
  IN  IF F64Less(F64Zero, doc_length) /\ F64Less(F64Zero, query_length)
      THEN AsScore(F64Div(dot, F64Mul(doc_length, query_length)))
      ELSE AsScore(dot)

\* (doc_id, score) for every document, in the order of self.documents
AllScores64(s, query_vector) ==
  LET query_length == Length64(query_vector)
  IN  [i \in DOMAIN s.documents.keys |->
         <<s.documents.keys[i],
           Score64(query_vector, query_length, DocVector64(s, s.documents.keys[i]))>>]

\* scores.items()
Scores64(s, query_vector) ==
  SelectSeq(AllScores64(s, query_vector), LAMBDA p : Positive(p[2]))

\* results: one entry for each of sorted_results
Results(s, sorted_results, query_terms) ==
  [i \in DOMAIN sorted_results |->
     Result(s, sorted_results[i][1], sorted_results[i][2], query_terms)]

search64(s, query, top_k) ==
  LET query_terms == preprocess_text(query)
      query_vector == QueryVector64(s, query_terms)
  IN  IF query_terms = <<>> THEN Outcome(s, "none", <<>>)
      ELSE IF query_vector = <<>> THEN Outcome(s, "none", <<>>)
      ELSE IF \E doc_id \in Range(s.documents.keys) :
                \/ doc_id \notin DOMAIN s.doc_vectors
                \/ doc_id \notin DOMAIN s.doc_lengths
           THEN Outcome(s, "KeyError", <<>>)
      ELSE Outcome(s, "none",
                   Results(s, TopResults(Scores64(s, query_vector), top_k), query_terms))

(***************************************************************************)
(* build_index                                                              *)
(***************************************************************************)
\* load_documents, build_inverted_index, compute_document_vectors, save_index: the
\* first exception ends the call.  file is index.pkl as the call leaves it, stages
\* the steps that completed.
build_index(s, rows, files, file) ==
  LET o1 == load_documents(s, rows, files)
      o2 == build_inverted_index(o1.self)
      o3 == compute_document_vectors(o2.self)
  IN  IF o1.exc # "none"
      THEN [self |-> o1.self, exc |-> o1.exc, file |-> file, stages |-> {}]
      ELSE IF o2.exc # "none"
      THEN [self |-> o2.self, exc |-> o2.exc, file |-> file,
            stages |-> {"load_documents"}]
      ELSE IF o3.exc # "none"
      THEN [self |-> o3.self, exc |-> o3.exc, file |-> file,
            stages |-> {"load_documents", "build_inverted_index"}]
      ELSE [self |-> o3.self, exc |-> "none", file |-> save_index(o3.self),
            stages |-> {"load_documents", "build_inverted_index",
                        "compute_document_vectors"}]

(***************************************************************************)
(* The state machine: one action per method called on the instance.         *)
(* save_index is called by build_index alone (main never calls it), so it   *)
(* is the last step of BuildIndex.                                          *)
(***************************************************************************)
\* the most postings one document has in one posting list: the number of build
\* passes layered into the index
Layers(index) ==
  LET Times(t, d) == Cardinality({i \in DOMAIN index.val[t] : index.val[t][i][1] = d})
      per == UNION {{Times(t, d) : d \in PostingDocs(index.val[t])} :
                      t \in Range(index.keys)}
  IN  IF per = {} THEN 0 ELSE CHOOSE n \in per : \A m \in per : m <= n

Called(op, query, top_k, exc, value) ==
  [op |-> op, query |-> query, top_k |-> top_k, exc |-> exc, value |-> value]

\* what a completed call has put into the instance; load_index deserializes what
\* build_inverted_index and compute_document_vectors build
Stage(op, exc) ==
  IF exc # "none" THEN {}
  ELSE IF op = "load_index" THEN {"build_inverted_index", "compute_document_vectors"}
  ELSE {op}

Init ==
  /\ metadata_csv \in Tables
  /\ articles = Files
  /\ index_pkl = <<>>
  /\ ir = NewSystem
  /\ done = {}
  /\ ret = Called("__init__", <<>>, 0, "none", <<>>)
  /\ pc = "idle"

LoadDocuments ==
  LET out == load_documents(ir, metadata_csv, articles)
  IN  /\ ir' = out.self
      /\ done' = done \cup Stage("load_documents", out.exc)
      /\ ret' = Called("load_documents", <<>>, 0, out.exc, <<>>)
      /\ UNCHANGED <<metadata_csv, articles, index_pkl, pc>>

BuildInvertedIndex ==
  LET out == build_inverted_index(ir)
  IN  /\ Layers(ir.inverted_index) < MaxBuilds
      /\ ir' = out.self
      /\ done' = done \cup Stage("build_inverted_index", out.exc)
      /\ ret' = Called("build_inverted_index", <<>>, 0, out.exc, <<>>)
      /\ UNCHANGED <<metadata_csv, articles, index_pkl, pc>>

ComputeDocumentVectors ==
  LET out == compute_document_vectors(ir)
  IN  /\ ir' = out.self
      /\ done' = done \cup Stage("compute_document_vectors", out.exc)
      /\ ret' = Called("compute_document_vectors", <<>>, 0, out.exc, <<>>)
      /\ UNCHANGED <<metadata_csv, articles, index_pkl, pc>>

LoadIndex ==
  LET out == load_index(ir, index_pkl)
  IN  /\ ir' = out.self
      /\ done' = done \cup Stage("load_index", out.exc)
      /\ ret' = Called("load_index", <<>>, 0, out.exc, <<>>)
      /\ UNCHANGED <<metadata_csv, articles, index_pkl, pc>>

BuildIndex ==
  LET out == build_index(ir, metadata_csv, articles, index_pkl)
  IN  /\ Layers(ir.inverted_index) < MaxBuilds
      /\ ir' = out.self
      /\ index_pkl' = out.file
      /\ done' = done \cup out.stages
      /\ ret' = Called("build_index", <<>>, 0, out.exc, <<>>)
      /\ UNCHANGED <<metadata_csv, articles, pc>>

Search ==
  \E query \in Queries, top_k \in TopKs :
    LET out == search(ir, query, top_k)
    IN  /\ ir' = out.self
        /\ ret' = Called("search", query, top_k, out.exc, out.value)
        /\ UNCHANGED <<metadata_csv, articles, index_pkl, done, pc>>

Next ==
  \/ LoadDocuments
  \/ BuildInvertedIndex
  \/ ComputeDocumentVectors
  \/ LoadIndex
  \/ BuildIndex
  \/ Search

Spec == Init /\ [][Next]_vars

(***************************************************************************)
(* The program started over an index file that an earlier run, another      *)
(* release of the program or a crash left on disk.                          *)
(***************************************************************************)
\* the dict an earlier run pickled for the corpus of rows
BlobOf(rows) == Pickled(build_index(NewSystem, rows, Files, <<>>).self)

\* index.pkl as the program finds it: absent, a file that is no pickle (pickle.load
\* raises on it), the blob of a build, the blob of a release that pickles a format
\* version beside the five keys, the blob of a release that does not pickle N
StoredFiles ==
  LET blob == BlobOf(<<Row2>>)
  IN  {<<>>,
       <<[kind |-> "garbage"]>>,
       <<PickleOf(blob)>>,
       <<PickleOf([k \in DOMAIN blob \cup {"version"} |->
                     IF k = "version" THEN 2 ELSE blob[k]])>>,
       <<PickleOf([k \in DOMAIN blob \ {"N"} |-> blob[k]])>>}

\* main, metadata.csv of at most one row
InitStore ==
  /\ metadata_csv \in {t \in Tables : Len(t) <= 1}
  /\ articles = Files
  /\ index_pkl \in StoredFiles
  /\ ir = NewSystem
  /\ done = {}
  /\ ret = Called("__init__", <<>>, 0, "none", <<>>)
  /\ pc = "idle"

SpecStore == InitStore /\ [][Next]_vars

(***************************************************************************)
(* main on the corpus of the three-document scenario, no index file on      *)
(* disk: build_index, then the searches of interactive_search.              *)
(***************************************************************************)
InitScenario ==
  /\ metadata_csv \in ScenarioTables
  /\ articles = ScenarioFiles
  /\ index_pkl = <<>>
  /\ ir = NewSystem
  /\ done = {}
  /\ ret = Called("__init__", <<>>, 0, "none", <<>>)
  /\ pc = "idle"

\* ir_system.build_index()
MainBuild == ret.op = "__init__" /\ BuildIndex

\* ir_system.interactive_search()
MainSearch == ret.op # "__init__" /\ Search

NextScenario == MainBuild \/ MainSearch

SpecScenario == InitScenario /\ [][NextScenario]_vars

(***************************************************************************)
(* main with the floats of the program: build_index, then the searches of   *)
(* interactive_search in binary64.                                          *)
(***************************************************************************)
\* search returns out
Searched(query, top_k, out) ==
  /\ ir' = out.self
  /\ ret' = Called("search", query, top_k, out.exc, out.value)
  /\ UNCHANGED <<metadata_csv, articles, index_pkl, done, pc>>

\* one search of interactive_search, which main reaches when build_index returned
Search64 ==
  /\ ret.op # "__init__"
  /\ ret.exc = "none"
  /\ \E query \in Queries, top_k \in TopKs :
       Searched(query, top_k, search64(ir, query, top_k))

NextBinary64 == MainBuild \/ Search64

SpecBinary64 == Init /\ [][NextBinary64]_vars

(***************************************************************************)
(* A text file is deleted from articles_dir between two builds.             *)
(***************************************************************************)
\* the text file of a loaded document is deleted, its metadata row stays
RemoveFile ==
  /\ ret.op = "build_index"
  /\ ret.exc = "none"
  /\ DOMAIN articles = DOMAIN Files
  /\ \E d \in Range(ir.documents.keys) :
       articles' = [f \in DOMAIN articles \ {ir.metadata.val[d]["filename"]} |->
                      articles[f]]
  /\ UNCHANGED <<metadata_csv, index_pkl, ir, done, ret, pc>>

NextRebuild == BuildIndex \/ RemoveFile \/ Search

SpecRebuild == Init /\ [][NextRebuild]_vars

(***************************************************************************)
(* The corpus written by ArticleCrawler (src/crawler.py), with the          *)
(* retrieval system constructed on the crawler's metadata_file and          *)
(* articles_dir.                                                            *)
(***************************************************************************)
\* init_metadata_csv: writer.writerow(['doc_id', 'title', 'url', 'date', 'filename'])
CrawlerHeader == <<"doc_id", "title", "url", "date", "filename">>

\* csv.DictReader: a row as a dict keyed by the cells of the header
DictRow(header, cells) ==
  [c \in Range(header) |-> cells[CHOOSE i \in DOMAIN header : header[i] = c]]

\* f"article_{doc_id}.txt"
ArticleName == <<"article_1.txt", "article_2.txt", "article_3.txt", "article_4.txt">>

\* writer.writerow([doc_id, title, url, date, filename]), as DictReader reads it
CrawledRow(doc_id) ==
  LET n == Digits[doc_id + 1]
  IN  DictRow(CrawlerHeader,
              <<<<n>>, <<"Doc", n>>, <<"http://news/", n>>, <<"2024-01-0", n>>,
                ArticleName[doc_id]>>)

\* ArticleCrawler.__init__: the header row alone, an empty articles directory
InitCrawl ==
  /\ metadata_csv = <<>>
  /\ articles = <<>>
  /\ index_pkl = <<>>
  /\ ir = NewSystem
  /\ done = {}
  /\ ret = Called("__init__", <<>>, 0, "none", <<>>)
  /\ pc = "idle"

\* one article saved by a crawl_* method: its text file, then its metadata row
Crawl ==
  \E content \in Range(Files) :
    LET doc_id == Len(metadata_csv) + 1
        filename == ArticleName[doc_id]
    IN  /\ ret.op = "__init__"
        /\ doc_id <= MaxRows
        /\ articles' = [f \in DOMAIN articles \cup {filename} |->
                          IF f = filename THEN content ELSE articles[f]]
        /\ metadata_csv' = Append(metadata_csv, CrawledRow(doc_id))
        /\ UNCHANGED <<index_pkl, ir, done, ret, pc>>

NextCrawl == Crawl \/ Next

SpecCrawl == InitCrawl /\ [][NextCrawl]_vars

(***************************************************************************)
(* A second thread runs build_index on the instance while the first one     *)
(* searches: the four statements of build_index interleave with search.     *)
(***************************************************************************)
BuildSteps ==
  <<"load_documents", "build_inverted_index", "compute_document_vectors", "save_index">>

\* the second thread calls build_index on an instance that holds an index
StartRebuild ==
  /\ pc = "idle"
  /\ "compute_document_vectors" \in done
  /\ Layers(ir.inverted_index) < MaxBuilds
  /\ pc' = BuildSteps[1]
  /\ UNCHANGED <<metadata_csv, articles, index_pkl, ir, done, ret>>

\* the second thread runs the statement of build_index it is at
RebuildStep ==
  LET out == CASE pc = "load_documents" -> load_documents(ir, metadata_csv, articles)
               [] pc = "build_inverted_index" -> build_inverted_index(ir)
               [] pc = "compute_document_vectors" -> compute_document_vectors(ir)
               [] pc = "save_index" -> Outcome(ir, "none", <<>>)
      at == CHOOSE i \in DOMAIN BuildSteps : BuildSteps[i] = pc
      last == out.exc # "none" \/ at = Len(BuildSteps)
  IN  /\ pc # "idle"
      /\ ir' = out.self
      /\ index_pkl' = IF pc = "save_index" THEN save_index(ir) ELSE index_pkl
      /\ done' = IF pc = "save_index" THEN done ELSE done \cup Stage(pc, out.exc)
      /\ pc' = IF last THEN "idle" ELSE BuildSteps[at + 1]
      /\ ret' = IF last THEN Called("build_index", <<>>, 0, out.exc, <<>>) ELSE ret
      /\ UNCHANGED <<metadata_csv, articles>>

NextThreads == MainBuild \/ StartRebuild \/ RebuildStep \/ MainSearch

SpecThreads == Init /\ [][NextThreads]_vars

(***************************************************************************)
(* preprocess_text on its own: a text on disk is read and tokenized.  The    *)
(* texts are made of words, a digit, a blank and an accented letter, put     *)
(* side by side in any order, so that runs merge, split, repeat and end at   *)
(* every kind of character.                                                 *)
(***************************************************************************)
\* "The", "owl", "it", "Ox", "4", " " and "é"
TextPieces ==
  {<<"T","h","e">>, <<"o","w","l">>, <<"i","t">>, <<"O","x">>, <<"4">>, <<" ">>, <<"é">>}

\* the texts of n pieces
RECURSIVE TextsOf(_)
TextsOf(n) ==
  IF n = 0 THEN {<<>>}
  ELSE {t \o p : t \in TextsOf(n - 1), p \in TextPieces}

InitTokens ==
  /\ metadata_csv = <<>>
  /\ articles \in [{"a.txt"} -> UNION {TextsOf(n) : n \in 0 .. MaxPieces}]
  /\ index_pkl = <<>>
  /\ ir = NewSystem
  /\ done = {}
  /\ ret = Called("__init__", <<>>, 0, "none", <<>>)
  /\ pc = "idle"

\* words = self.preprocess_text(content), on the text of a.txt
PreprocessText ==
  /\ ret.op = "__init__"
  /\ ret' = Called("preprocess_text", articles["a.txt"], 0, "none",
                   Tokenize(articles["a.txt"]))
  /\ UNCHANGED <<metadata_csv, articles, index_pkl, ir, done, pc>>

SpecTokens == InitTokens /\ [][PreprocessText]_vars

(***************************************************************************)
(* Properties.                                                              *)
(***************************************************************************)
\* the last call was a search that returned a list
SearchReturned == ret.op = "search" /\ ret.exc = "none"

\* the token sequence of the last query
QueryTerms == preprocess_text(ret.query)

\* the instance is Ready: documents loaded, and inverted index, IDF table, document
\* vectors and norms built or deserialized
Ready == done = {"load_documents", "build_inverted_index", "compute_document_vectors"}

\* the documents search scores above 0 for the last query, in the order of
\* self.documents, each with its score
PositiveDocs ==
  IF QueryTerms = <<>> \/ DOMAIN QueryVector(ir, QueryTerms) = {} THEN <<>>
  ELSE Scores(ir, QueryVector(ir, QueryTerms))

ReturnedIds == {ret.value[i].doc_id : i \in DOMAIN ret.value}

\* C1: a search made before the instance is Ready fails with NotReadyError: it
\* returns no list and raises no other error.
C1_SearchBeforeReadyFails ==
  (ret.op = "search" /\ ~Ready) => ret.exc = "NotReadyError"

\* C2: in the list search returns, two results of equal score are in ascending
\* document-id order.
C2_TiesByAscendingId ==
  SearchReturned =>
    \A i, j \in DOMAIN ret.value :
      (i < j /\ ret.value[i].score = ret.value[j].score)
        => ret.value[i].doc_id < ret.value[j].doc_id

C4_EmptyQueryReturnsNothing ==
  (/\ ret.op = "search"
   /\ \A t \in Range(QueryTerms) : t \notin DOMAIN ir.idf_values)
    => (ret.exc = "none" /\ ret.value = <<>>)

\* a search on loaded documents and a built IDF table, for a query whose only
\* token is a term of no document
C4_Witness ==
  /\ ret.op = "search"
  /\ QueryTerms # <<>>
  /\ \A t \in Range(QueryTerms) : t \notin DOMAIN ir.idf_values
  /\ DOMAIN ir.idf_values # {}
  /\ ir.documents.keys # <<>>
  /\ ret.value = <<>>

\* C5: every document search returns is in the posting list of a term of the
\* tokenized query.
C5_ResultsShareAQueryTerm ==
  SearchReturned =>
    \A i \in DOMAIN ret.value :
      \E t \in Range(QueryTerms) :
        /\ HasKey(ir.inverted_index, t)
        /\ ret.value[i].doc_id \in PostingDocs(ir.inverted_index.val[t])

\* a search with top_k above the corpus size returned a document and left out a
\* loaded one that is in no posting list of a query term
C5_Witness ==
  /\ SearchReturned
  /\ ret.top_k = DefaultTopK
  /\ ret.value # <<>>
  /\ \E d \in Range(ir.documents.keys) \ ReturnedIds :
       \A t \in Range(QueryTerms) :
         HasKey(ir.inverted_index, t) => d \notin PostingDocs(ir.inverted_index.val[t])

\* C6: for top_k >= 0 search returns min(top_k, number of documents of score > 0)
\* results, and no document left out has a score above that of a returned one.
C6_TopKOfThePositive ==
  (SearchReturned /\ ret.top_k >= 0) =>
    /\ Len(ret.value) = Min(ret.top_k, Len(PositiveDocs))
    /\ \A p \in Range(PositiveDocs) :
         p[1] \notin ReturnedIds =>
           \A i \in DOMAIN ret.value : ~RealLess(ret.value[i].score, p[2])

\* a search cut its list to top_k and left out a document of a smaller score
C6_Witness ==
  /\ SearchReturned
  /\ ret.top_k = 1
  /\ Len(ret.value) = 1
  /\ \E p \in Range(PositiveDocs) :
       p[1] \notin ReturnedIds /\ RealLess(p[2], ret.value[1].score)

\* the sentences of a returned document that contain a query term, by position
Matching(doc_id) ==
  LET sentences == SplitSentences(ir.documents.val[doc_id])
  IN  {i \in DOMAIN sentences :
         \E t \in Range(QueryTerms) : Contains(Lower(sentences[i]), t)}

\* the first MaxSentences of them, in document order, stripped
FirstMatching(doc_id) ==
  LET sentences == SplitSentences(ir.documents.val[doc_id])
      M == Matching(doc_id)
      first == {i \in M : Cardinality({j \in M : j < i}) < MaxSentences}
  IN  [k \in 1 .. Cardinality(first) |->
         Strip(sentences[CHOOSE i \in first : Cardinality({j \in first : j < i}) = k - 1])]

\* C7: the snippet of a result is made of the first sentences of the document, in
\* document order and at most 3, that contain a query term, joined with ". " (and
\* closed with "."); it is empty when no sentence contains a query term.
C7_SnippetOfFirstThree ==
  SearchReturned =>
    \A i \in DOMAIN ret.value :
      LET doc_id == ret.value[i].doc_id
      IN  ret.value[i].summary =
            IF Matching(doc_id) = {} THEN <<>>
            ELSE Join(FirstMatching(doc_id), <<".", " ">>) \o <<".">>

\* a result whose document has more than 3 sentences that contain a query term
C7_Witness ==
  /\ SearchReturned
  /\ \E i \in DOMAIN ret.value :
       /\ Cardinality(Matching(ret.value[i].doc_id)) > MaxSentences
       /\ ret.value[i].summary # <<>>

\* the ids of the rows of the table that parse and whose text file exists
WellFormedIds ==
  {IntOf(metadata_csv[i]["id"]) :
     i \in {j \in DOMAIN metadata_csv :
              /\ IsInt(metadata_csv[j]["id"])
              /\ metadata_csv[j]["filename"] \in DOMAIN articles}}

\* C8: load_documents skips a row whose id does not parse and a row whose file is
\* absent: it raises nothing and leaves exactly the well-formed rows loaded.
C8_LoadSkipsBadRows ==
  ret.op = "load_documents" =>
    (ret.exc = "none" /\ Range(ir.documents.keys) = WellFormedIds)

\* C9: with zero documents after loading, the build fails with EmptyCorpusError
\* and no index is persisted.
C9_EmptyCorpusFailsBuild ==
  (/\ ret.op \in {"build_index", "build_inverted_index"}
   /\ "load_documents" \in done
   /\ ir.documents.keys = <<>>)
    => (ret.exc = "EmptyCorpusError" /\ index_pkl = <<>>)

\* t occurs in every loaded document
InEveryDocument(t) ==
  \A d \in Range(ir.documents.keys) : t \in Range(preprocess_text(ir.documents.val[d]))

\* C10: in every reachable state every term t of the IDF table has
\* 1 <= df(t) <= N, df(t) the length of its posting list, idf(t) = ln(N / df(t)) >= 0,
\* and idf(t) = 0 exactly when t occurs in every loaded document.
C10_IdfInvariant ==
  \A t \in DOMAIN ir.idf_values :
    /\ HasKey(ir.inverted_index, t)
    /\ 1 <= Len(ir.inverted_index.val[t])
    /\ Len(ir.inverted_index.val[t]) <= ir.N
    /\ ir.idf_values[t] = Log(ir.N, Len(ir.inverted_index.val[t]))
    /\ ir.idf_values[t] >= 0
    /\ (ir.idf_values[t] = 0 <=> InEveryDocument(t))

\* the last call was a build that completed
BuildReturned ==
  ret.op \in {"build_index", "build_inverted_index"} /\ ret.exc = "none"

\* the normalized term frequencies stored for doc_id, one per posting of doc_id
StoredTf(doc_id) ==
  LET index == ir.inverted_index
      At(t) == {i \in DOMAIN index.val[t] : index.val[t][i][1] = doc_id}
      held == UNION {{<<t, i>> : i \in At(t)} : t \in Range(index.keys)}
  IN  [p \in held |-> index.val[p[1]][p[2]][2]]

\* C11: after a build, the normalized term frequencies stored in the postings of
\* a document that has a token sum to 1, and each of them lies in (0, 1].
C11_TfSumsToOne ==
  BuildReturned =>
    \A d \in Range(ir.documents.keys) :
      preprocess_text(ir.documents.val[d]) # <<>> =>
        /\ RSumOver(DOMAIN StoredTf(d), StoredTf(d)) = Rat(1, 1)
        /\ \A p \in DOMAIN StoredTf(d) :
             RSign(StoredTf(d)[p]) > 0 /\ ~RLess(Rat(1, 1), StoredTf(d)[p])

\* the index, IDF table, vectors and norms of one build of the loaded documents
\* on an instance that holds no index
SingleBuild ==
  LET clean == [NewSystem EXCEPT !.documents = ir.documents,
                                 !.metadata = ir.metadata, !.N = ir.N]
      o1 == build_inverted_index(clean)
  IN  IF ret.op = "build_index" THEN compute_document_vectors(o1.self).self
      ELSE [o1.self EXCEPT !.doc_vectors = ir.doc_vectors,
                           !.doc_lengths = ir.doc_lengths]

\* C12: a build on an instance that already holds an index leaves what a single
\* build gives, and no posting list holds two postings of one document.
C12_RebuildReplaces ==
  BuildReturned =>
    /\ ir = SingleBuild
    /\ Layers(ir.inverted_index) <= 1

\* a new instance that runs load_index on index.pkl and then load_documents, as main
\* does when it finds the file
Reloaded ==
  LET o1 == load_index(NewSystem, index_pkl)
      o2 == load_documents(o1.self, metadata_csv, articles)
  IN  [self |-> o2.self,
       exc |-> IF o1.exc # "none" THEN o1.exc ELSE o2.exc]

Damaged(file) ==
  /\ file # <<>>
  /\ \/ file[1].kind # "pickle"
     \/ DOMAIN file[1].data # Range(IndexKeys)

\* C14: load_index on a corrupt blob, or on one of another format version, fails
\* with DeserializationError.
C14_DamagedBlobRejected ==
  (ret.op = "load_index" /\ Damaged(index_pkl)) => ret.exc = "DeserializationError"

\* C15: load_index, build_inverted_index or compute_document_vectors that fails
\* leaves the inverted index, IDF table, vectors, norms and N as they were before
\* the call.
C15_FailureLeavesIndex ==
  [][(/\ ret'.op \in {"load_index", "build_inverted_index", "compute_document_vectors"}
      /\ ret'.exc # "none")
       => \A k \in Range(IndexKeys) : ir'[k] = ir[k]]_vars

\* C16: for every query and every document of a built index the cosine score
\* that search computes lies in [0, 1], and every score attached to a returned
\* result lies in (0, 1].
C16_ScoreInUnitInterval ==
  (ret.op = "search" /\ ret.exc = "none" /\ QueryTerms # <<>>) =>
    /\ \A p \in Range(AllScores64(ir, QueryVector64(ir, QueryTerms))) :
         p[2].sgn >= 0 /\ ~RealLess(F64One, p[2])
    /\ \A i \in DOMAIN ret.value :
         Positive(ret.value[i].score) /\ ~RealLess(F64One, ret.value[i].score)

\* C17: on the corpus "alpha beta alpha", "beta gamma", "gamma gamma alpha" the
\* build gives N = 3 and df = 2, idf = ln(3/2) for alpha, beta and gamma, and
\* search("alpha") returns document 1, then document 3, and not document 2.
C17_ThreeDocumentScenario ==
  /\ ret.op # "__init__" =>
       /\ ir.N = 3
       /\ Cardinality(Range(ir.inverted_index.keys)) = 3
       /\ Range(preprocess_text(QAlpha)) \subseteq Range(ir.inverted_index.keys)
       /\ \A t \in Range(ir.inverted_index.keys) :
            /\ Len(ir.inverted_index.val[t]) = 2
            /\ ir.idf_values[t] = Log(3, 2)
  /\ (ret.op = "search" /\ ret.query = QAlpha /\ ret.top_k = DefaultTopK) =>
       /\ ret.exc = "none"
       /\ [i \in DOMAIN ret.value |-> ret.value[i].doc_id] = <<1, 3>>

\* search("alpha") returned its two documents after the build of the scenario
C17_Witness ==
  /\ ret.op = "search"
  /\ ret.query = QAlpha
  /\ ret.top_k = DefaultTopK
  /\ Len(ret.value) = 2
  /\ RealLess(ret.value[2].score, ret.value[1].score)
  /\ ir.N = 3

\* the loaded documents whose text file is no longer in articles_dir
Missing ==
  {d \in Range(ir.documents.keys) : ir.metadata.val[d]["filename"] \notin DOMAIN articles}

\* C18: a build_index made after the text file of one document was deleted
\* completes, lowers N by at most one, takes the postings of that document out
\* of every posting list and leaves the other postings as they were.
C18_RebuildAfterRemoval ==
  [][(/\ ret'.op = "build_index"
      /\ articles' = articles
      /\ Missing # {})
       => /\ ret'.exc = "none"
          /\ ir.N - 1 <= ir'.N
          /\ ir'.N <= ir.N
          /\ \A t \in Range(ir.inverted_index.keys) :
               (IF HasKey(ir'.inverted_index, t) THEN ir'.inverted_index.val[t] ELSE <<>>)
                 = SelectSeq(ir.inverted_index.val[t], LAMBDA p : p[1] \notin Missing)]_vars

\* C19: load_documents reads every row of the table ArticleCrawler wrote: it
\* raises nothing and holds the title, url, date and filename of each row under
\* the row's id.
C19_CrawledTableLoads ==
  ret.op = "load_documents" =>
    /\ ret.exc = "none"
    /\ \A i \in DOMAIN metadata_csv :
         /\ HasKey(ir.metadata, i)
         /\ \A c \in MetaColumns : ir.metadata.val[i][c] = CrawledRow(i)[c]

\* the index, IDF table, vectors and norms of s belong to one finished build: the
\* IDF values are those of the posting lists, and the vectors and norms those of
\* the posting lists and IDF values
OneBuild(s) ==
  /\ \A t \in Range(s.inverted_index.keys) :
       /\ t \in DOMAIN s.idf_values
       /\ s.idf_values[t] = Log(s.N, Len(s.inverted_index.val[t]))
  /\ compute_document_vectors(s) = Outcome(s, "none", <<>>)

\* C20: a search that runs while a second thread is inside build_index sees the
\* index, IDF table, vectors and norms of one finished build, the prior one or
\* the new one.
C20_SearchSeesOneBuild ==
  [][(pc # "idle" /\ pc' = pc /\ ret'.op = "search" /\ ir' = ir) => OneBuild(ir)]_vars

\* C21: search leaves the instance as it found it: inverted index, IDF table,
\* document vectors, norms, N, documents and metadata are the same after the
\* call as before it, whether search returns results, an empty list or raises.
C21_SearchLeavesIndex == [][ret'.op = "search" => ir' = ir]_vars

\* a search raised KeyError on an instance whose inverted index holds postings
C21_Witness ==
  /\ ret.op = "search" /\ ret.exc = "KeyError"
  /\ ir.inverted_index.keys # <<>>

\* the loaded documents in which preprocess_text finds no token
Tokenless == {d \in Range(ir.documents.keys) : preprocess_text(ir.documents.val[d]) = <<>>}

\* C22: a document with no token surviving the tokenizer has, once
\* compute_document_vectors or build_index returned, an empty vector and norm 0;
\* it is in no posting list, and no search returns it.
C22_TokenlessDocument ==
  \A d \in Tokenless :
    /\ \A t \in Range(ir.inverted_index.keys) :
         \A i \in DOMAIN ir.inverted_index.val[t] : ir.inverted_index.val[t][i][1] # d
    /\ (ret.op \in {"compute_document_vectors", "build_index"} /\ ret.exc = "none") =>
         d \in DOMAIN ir.doc_vectors /\ d \in DOMAIN ir.doc_lengths
    /\ d \in DOMAIN ir.doc_vectors => DOMAIN ir.doc_vectors[d] = {}
    /\ d \in DOMAIN ir.doc_lengths => ir.doc_lengths[d] = Zero
    /\ SearchReturned => d \notin ReturnedIds

\* a search on a built corpus with a document without tokens returned another
\* document of the corpus
C22_Witness ==
  /\ SearchReturned /\ ret.value # <<>>
  /\ \E d \in Tokenless : d \in DOMAIN ir.doc_vectors /\ d \in DOMAIN ir.doc_lengths

\* the terms whose posting list has a posting of doc_id
TermsOf(doc_id) ==
  {t \in Range(ir.inverted_index.keys) :
     \E i \in DOMAIN ir.inverted_index.val[t] : ir.inverted_index.val[t][i][1] = doc_id}

Alphabetic == LowerCase \cup {"é"}

\* the maximal runs of characters of S in text, each as <<first, last>>
MaximalRuns(text, S) ==
  {p \in (DOMAIN text) \X (DOMAIN text) :
     /\ p[1] <= p[2]
     /\ \A k \in p[1] .. p[2] : text[k] \in S
     /\ p[1] = 1 \/ text[p[1] - 1] \notin S
     /\ p[2] = Len(text) \/ text[p[2] + 1] \notin S}

\* tokens is the sequence, in the order of the text, of the maximal runs of
\* characters of S in the lowercased text that are longer than 2 and no stopword
TokensAreRuns(text, tokens, S) ==
  LET low == Lower(text)
      kept == {p \in MaximalRuns(low, S) :
                 p[2] - p[1] + 1 > 2 /\ SubSeq(low, p[1], p[2]) \notin stopwords}
      nth(n) == CHOOSE p \in kept : Cardinality({q \in kept : q[1] < p[1]}) = n - 1
  IN  /\ Len(tokens) = Cardinality(kept)
      /\ \A n \in DOMAIN tokens : tokens[n] = SubSeq(low, nth(n)[1], nth(n)[2])

\* C24: preprocess_text returns the maximal alphabetic runs of the lowercased
\* text, in their order and with duplicates, without the runs of length <= 2 and
\* the stopwords; every token it returns is lowercase alphabetic, longer than 2
\* and no stopword.
C24_TokensAreAlphabeticRuns ==
  ret.op = "preprocess_text" =>
    /\ TokensAreRuns(ret.query, ret.value, Alphabetic)
    /\ \A n \in DOMAIN ret.value :
         /\ \A k \in DOMAIN ret.value[n] : ret.value[n][k] \in Alphabetic
         /\ Len(ret.value[n]) > 2
         /\ ret.value[n] \notin stopwords

\* document d contains a term of the last query whose idf is strictly positive
SharesPositiveTerm(d) ==
  \E t \in Range(QueryTerms) \cap Range(preprocess_text(ir.documents.val[d])) :
    t \in DOMAIN ir.idf_values /\ ir.idf_values[t] > 0

\* C25: on an instance whose index, IDF table, vectors and norms are those a
\* build has finished, a search with top_k at least the corpus size returns a
\* document exactly when the document contains a query term of strictly positive
\* idf; so a query of terms that occur in every document, and any query on a
\* corpus of one document, returns the empty list.
C25_ReturnedIffPositiveTerm ==
  (SearchReturned /\ ret.top_k >= Len(ir.documents.keys) /\ OneBuild(ir)) =>
    /\ \A d \in Range(ir.documents.keys) : d \in ReturnedIds <=> SharesPositiveTerm(d)
    /\ (\A t \in Range(QueryTerms) : InEveryDocument(t)) => ret.value = <<>>
    /\ Len(ir.documents.keys) = 1 => ret.value = <<>>

=============================================================================
